---------------------------- MODULE Spec2Model ----------------------------
(***************************************************************************)
(* ContactHub API (src/src/main.py): the contacts table, the seven request *)
(* handlers and the birthday-window predicate.                             *)
(*                                                                         *)
(* Text values are tuples of one-character strings, so that substring and  *)
(* ILIKE matching are computed character by character.  Python's None is   *)
(* the tuple None for text and the record NoDate for a date.               *)
(***************************************************************************)
EXTENDS Integers, Sequences, FiniteSets, TLC

VARIABLES table,    \* the contacts table: its rows in the order a scan returns them
          next_id,  \* the next value of the id sequence (autoincrement)
          now,      \* the clock reading of the latest write
          last,     \* the latest request and its response
          created,  \* history: the ids returned by successful creates
          deleted,  \* history: the ids removed by successful deletes
          req       \* the in-flight create requests of the concurrent specification

vars == <<table, next_id, now, last, created, deleted, req>>

---------------------------------------------------------------------------
\* Bounds of the model
MaxId == 2
MaxClock == 3
NProcs == 3
MaxDays == 8

\* Program constants
NameMinLen == 3
NameMaxLen == 50
PhoneMinLen == 10
PhoneMaxLen == 20
QueryMinLen == 3
LimitMax == 500
days_to_check == 7

None == <<"None">>
NoDate == [year |-> 0, month |-> 0, day |-> 0]

BusinessFields ==
    {"first_name", "last_name", "email", "phone", "birthday", "additional_data"}

\* Columns declared nullable=False
NotNullFields == {"first_name", "last_name", "email", "phone", "birthday"}

---------------------------------------------------------------------------
\* Calendar dates (datetime.date)

Date(y, m, d) == [year |-> y, month |-> m, day |-> d]

IsLeap(y) == (y % 4 = 0) /\ ((y % 100 # 0) \/ (y % 400 = 0))

DaysInMonth(y, m) ==
    IF m = 2 THEN (IF IsLeap(y) THEN 29 ELSE 28)
    ELSE IF m \in {4, 6, 9, 11} THEN 30 ELSE 31

ValidDate(d) ==
    /\ d.month \in 1..12
    /\ d.day \in 1..DaysInMonth(d.year, d.month)

RECURSIVE DaysBeforeMonth(_, _)
DaysBeforeMonth(y, m) ==
    IF m = 1 THEN 0 ELSE DaysBeforeMonth(y, m - 1) + DaysInMonth(y, m - 1)

DaysBeforeYear(y) ==
    365 * (y - 1) + ((y - 1) \div 4) - ((y - 1) \div 100) + ((y - 1) \div 400)

\* date.toordinal(): what date comparison and date + timedelta compute with
Ordinal(d) == DaysBeforeYear(d.year) + DaysBeforeMonth(d.year, d.month) + d.day

\* date.replace(year=y) raises ValueError when the day does not exist in year y
ReplaceYearRaises(d, y) == ~ValidDate([d EXCEPT !.year = y])
ReplaceYear(d, y) == [d EXCEPT !.year = y]

\* _is_birthday_within_days: "True", "False", or "ValueError" when a replace raises
IsBirthdayWithinDays(birthday, current_date, days) ==
    IF birthday = NoDate THEN "False"
    ELSE LET end_date == Ordinal(current_date) + days
         IN  IF ReplaceYearRaises(birthday, current_date.year) THEN "ValueError"
             ELSE LET this_year == ReplaceYear(birthday, current_date.year)
                  IN  IF Ordinal(this_year) < Ordinal(current_date)
                      THEN IF ReplaceYearRaises(this_year, current_date.year + 1)
                           THEN "ValueError"
                           ELSE LET next_year ==
                                        ReplaceYear(this_year, current_date.year + 1)
                                IN  IF /\ Ordinal(current_date) <= Ordinal(next_year)
                                       /\ Ordinal(next_year) <= end_date
                                    THEN "True" ELSE "False"
                      ELSE IF /\ Ordinal(current_date) <= Ordinal(this_year)
                              /\ Ordinal(this_year) <= end_date
                           THEN "True" ELSE "False"

---------------------------------------------------------------------------
\* Text

LowerChar(c) ==
    CASE c = "A" -> "a"
      [] c = "B" -> "b"
      [] c = "L" -> "l"
      [] c = "N" -> "n"
      [] c = "R" -> "r"
      [] c = "Z" -> "z"
      [] OTHER -> c

LowerStr(s) == [i \in 1..Len(s) |-> LowerChar(s[i])]

\* s LIKE p: % matches any run, _ any one character, backslash quotes the next
RECURSIVE LikeMatch(_, _)
LikeMatch(p, s) ==
    IF p = <<>> THEN s = <<>>
    ELSE IF Head(p) = "%"
         THEN LikeMatch(Tail(p), s) \/ (s # <<>> /\ LikeMatch(p, Tail(s)))
    ELSE IF Head(p) = "_"
         THEN s # <<>> /\ LikeMatch(Tail(p), Tail(s))
    ELSE IF Head(p) = "\\"
         THEN /\ Len(p) >= 2
              /\ s # <<>>
              /\ p[2] = Head(s)
              /\ LikeMatch(Tail(Tail(p)), Tail(s))
    ELSE s # <<>> /\ Head(p) = Head(s) /\ LikeMatch(Tail(p), Tail(s))

\* column.ilike(pattern): LIKE on the case-folded operands; NULL never matches
ILike(s, p) == s # None /\ LikeMatch(LowerStr(p), LowerStr(s))

\* f"%{query}%"
SearchPattern(query) == <<"%">> \o query \o <<"%">>


---------------------------------------------------------------------------
\* Request validation (schemas.py, and the Query(...) bounds of main.py)

CountOf(s, c) == Cardinality({i \in 1..Len(s) : s[i] = c})

\* EmailStr: one "@" with text on both sides
ValidEmail(s) ==
    /\ s # None
    /\ CountOf(s, "@") = 1
    /\ s[1] # "@"
    /\ s[Len(s)] # "@"

ValidName(s) == s # None /\ Len(s) \in NameMinLen..NameMaxLen

ValidPhone(s) == s # None /\ Len(s) \in PhoneMinLen..PhoneMaxLen

IsNone(f, v) == IF f = "birthday" THEN v = NoDate ELSE v = None

ValidField(f, v) ==
    CASE f \in {"first_name", "last_name"} -> ValidName(v)
      [] f = "email" -> ValidEmail(v)
      [] f = "phone" -> ValidPhone(v)
      [] f = "birthday" -> v # NoDate /\ ValidDate(v)
      [] OTHER -> TRUE

\* ContactBase: every business field but additional_data is required
ValidContactBase(c) ==
    \A f \in BusinessFields \ {"additional_data"} : ValidField(f, c[f])

\* ContactUpdate: every field Optional, so an explicit null passes validation
ValidContactUpdate(p) ==
    \A f \in DOMAIN p : IsNone(f, p[f]) \/ ValidField(f, p[f])

ValidPaging(skip, limit) == skip >= 0 /\ limit >= 1 /\ limit <= LimitMax

ValidQuery(query) == Len(query) >= QueryMinLen

\* ContactResponse: id and the business fields, no timestamps
Response(row) == [f \in BusinessFields \cup {"id"} |-> row[f]]

Responses(rows) == [i \in 1..Len(rows) |-> Response(rows[i])]

---------------------------------------------------------------------------
\* The table and the session's statements

FirstOf(rows) == IF rows = <<>> THEN <<>> ELSE <<rows[1]>>

\* Mutant of QueryByEmail: the filter compares the wrong column
QueryByEmailWrongColumn(t, email) ==
    FirstOf(SelectSeq(t, LAMBDA r : r.first_name = email))

\* db.query(Contact).filter(Contact.email == email).first()
QueryByEmail(t, email) == FirstOf(SelectSeq(t, LAMBDA r : r.email = email))

\* db.query(Contact).filter(Contact.id == contact_id).first()
QueryById(t, id) == FirstOf(SelectSeq(t, LAMBDA r : r.id = id))

\* email: unique=True
UniqueViolation(t, row) ==
    \E i \in 1..Len(t) : t[i].id # row.id /\ t[i].email = row.email

\* nullable=False
NotNullViolation(row) == \E f \in NotNullFields : IsNone(f, row[f])

\* Mutant of AllocateId: one more than the largest stored id, so that the id of a
\* deleted last row is handed out again
AllocateIdMaxPlusOne(t, seq) ==
    IF t = <<>> THEN 1
    ELSE 1 + CHOOSE m \in {t[i].id : i \in 1..Len(t)} :
                 \A i \in 1..Len(t) : t[i].id <= m

\* id: primary_key, autoincrement: the sequence's next value, never handed out twice
AllocateId(t, seq) == seq

\* Contact(**contact.model_dump()) with the column defaults of created_at, updated_at
NewContact(c, id, ts) ==
    [id |-> id,
     first_name |-> c.first_name,
     last_name |-> c.last_name,
     email |-> c.email,
     phone |-> c.phone,
     birthday |-> c.birthday,
     additional_data |-> c.additional_data,
     created_at |-> ts,
     updated_at |-> ts]

\* Mutant of InsertCommit: the email column without its unique constraint
InsertCommitNoUniqueCheck(t, row) ==
    IF NotNullViolation(row)
    THEN [ok |-> FALSE, table |-> t]
    ELSE [ok |-> TRUE, table |-> Append(t, row)]

\* db.add(new_contact); db.commit(): the INSERT, refused as a whole by a constraint
InsertCommit(t, row) ==
    IF NotNullViolation(row) \/ UniqueViolation(t, row)
    THEN [ok |-> FALSE, table |-> t]
    ELSE [ok |-> TRUE, table |-> Append(t, row)]

\* Mutant of SetAttrs: model_dump() without exclude_unset, so that every field the
\* client omitted is overwritten with its default None
SetAttrsAllFields(row, update_data) ==
    [f \in DOMAIN row |->
        IF f \in DOMAIN update_data THEN update_data[f]
        ELSE IF f \in BusinessFields THEN (IF f = "birthday" THEN NoDate ELSE None)
        ELSE row[f]]

\* for field, value in model_dump(exclude_unset=True).items(): setattr(...)
SetAttrs(row, update_data) ==
    [f \in DOMAIN row |-> IF f \in DOMAIN update_data THEN update_data[f] ELSE row[f]]

\* The flush: an UPDATE is emitted only for a net change, and onupdate then
\* stamps updated_at
FlushUpdate(row, changed, ts) ==
    IF changed = row THEN row ELSE [changed EXCEPT !.updated_at = ts]

\* The row's new version in the table: where the old one was, or (a new tuple
\* version in the heap) behind the others
ReplaceRow(t, new_row, moved) ==
    IF moved
    THEN Append(SelectSeq(t, LAMBDA r : r.id # new_row.id), new_row)
    ELSE [i \in 1..Len(t) |-> IF t[i].id = new_row.id THEN new_row ELSE t[i]]

\* Mutant of UpdateCommit: the email column without its unique constraint
UpdateCommitNoUniqueCheck(t, row, new_row, moved) ==
    IF new_row = row THEN [ok |-> TRUE, table |-> t]
    ELSE IF NotNullViolation(new_row)
    THEN [ok |-> FALSE, table |-> t]
    ELSE [ok |-> TRUE, table |-> ReplaceRow(t, new_row, moved)]

\* Mutant of UpdateCommit: the refused UPDATE is not rolled back
UpdateCommitNoRollback(t, row, new_row, moved) ==
    IF new_row = row THEN [ok |-> TRUE, table |-> t]
    ELSE IF NotNullViolation(new_row) \/ UniqueViolation(t, new_row)
    THEN [ok |-> FALSE, table |-> ReplaceRow(t, new_row, moved)]
    ELSE [ok |-> TRUE, table |-> ReplaceRow(t, new_row, moved)]

\* db.commit() of an update: the UPDATE, refused as a whole by a constraint
UpdateCommit(t, row, new_row, moved) ==
    IF new_row = row THEN [ok |-> TRUE, table |-> t]
    ELSE IF NotNullViolation(new_row) \/ UniqueViolation(t, new_row)
    THEN [ok |-> FALSE, table |-> t]
    ELSE [ok |-> TRUE, table |-> ReplaceRow(t, new_row, moved)]

\* Mutant of DeleteRow: the DELETE is never committed
DeleteRowNotCommitted(t, id) == t

\* db.delete(contact); db.commit()
DeleteRow(t, id) == SelectSeq(t, LAMBDA r : r.id # id)

\* .offset(skip).limit(limit).all()
OffsetLimit(rows, skip, limit) ==
    IF skip >= Len(rows) THEN <<>>
    ELSE SubSeq(rows, skip + 1, IF skip + limit < Len(rows) THEN skip + limit ELSE Len(rows))

\* .filter(first_name.ilike(p) | last_name.ilike(p) | email.ilike(p)).all()
SearchRows(t, pattern) ==
    SelectSeq(t, LAMBDA r : \/ ILike(r.first_name, pattern)
                            \/ ILike(r.last_name, pattern)
                            \/ ILike(r.email, pattern))

Reply(op, arg, status, body) ==
    [op |-> op, arg |-> arg, status |-> status, body |-> body]

---------------------------------------------------------------------------
\* Inputs

Chars(n, c) == [i \in 1..n |-> c]

Ann == <<"A", "n", "n">>
Bob == <<"B", "o", "b">>
Lee == <<"L", "e", "e">>
Roe == <<"R", "o", "e">>
Al == <<"A", "l">>
Vip == <<"v", "i", "p">>
AnnMail == <<"a", "n", "n", "@", "x", ".", "i", "o">>
BobMail == <<"b", "o", "b", "@", "x", ".", "i", "o">>
ZedMail == <<"z", "_", "d", "@", "x", ".", "i", "o">>
Phone5 == Chars(PhoneMinLen, "5")
Phone7 == Chars(PhoneMinLen, "7")

Contact(first, surname, email, phone, birthday, extra) ==
    [first_name |-> first, last_name |-> surname, email |-> email,
     phone |-> phone, birthday |-> birthday, additional_data |-> extra]

CreateInputs ==
    {Contact(Ann, Lee, AnnMail, Phone5, Date(1990, 1, 2), None),
     Contact(Bob, Roe, BobMail, Phone7, Date(2000, 2, 29), Vip),
     Contact(Bob, Lee, AnnMail, Phone7, Date(1990, 1, 2), None),
     Contact(Al, Lee, ZedMail, Phone5, Date(1990, 1, 2), None)}

\* model_dump(exclude_unset=True) of the request bodies: the fields the client sent
UpdateInputs ==
    {<<>>,
     "first_name" :> Bob,
     "email" :> BobMail,
     ("phone" :> Phone7) @@ ("birthday" :> Date(1985, 12, 30)),
     "additional_data" :> None,
     "last_name" :> None,
     "first_name" :> Al,
     Contact(Ann, Roe, ZedMail, Phone5, Date(1990, 1, 2), Vip)}

IdInputs == 1..MaxId
PagingInputs ==
    {<<0, 1>>, <<1, 1>>, <<0, 2>>, <<2, LimitMax>>,
     <<-1, 1>>, <<0, 0>>, <<0, LimitMax + 1>>}
QueryInputs ==
    {<<"a", "n", "n">>, <<"N", "N", "@">>, <<"a", "_", "n">>, <<"%", "%", "%">>,
     <<"z", "z", "z">>, <<"a", "n">>, <<"_", "d", "@">>}
TodayInputs == {Date(2023, 12, 28), Date(2024, 2, 25), Date(2023, 2, 25)}

---------------------------------------------------------------------------
\* The handlers, each one request from validation to response

Init ==
    /\ table = <<>>
    /\ next_id = 1
    /\ now = 0
    /\ last = Reply("none", <<>>, 0, <<>>)
    /\ created = {}
    /\ deleted = {}
    /\ req = [p \in 1..NProcs |-> [pc |-> "idle"]]

\* POST /contacts/
CreateContact(contact) ==
    LET existing_contact == QueryByEmail(table, contact.email)
        new_contact == NewContact(contact, AllocateId(table, next_id), now + 1)
        commit == InsertCommit(table, new_contact)
    IN  /\ UNCHANGED <<deleted, req>>
        /\ IF ~ValidContactBase(contact)
           THEN /\ last' = Reply("create", contact, 422, <<>>)
                /\ UNCHANGED <<table, next_id, now, created>>
           ELSE IF existing_contact # <<>>
           THEN /\ last' = Reply("create", contact, 400, <<>>)
                /\ UNCHANGED <<table, next_id, now, created>>
           ELSE /\ next_id <= MaxId
                /\ now < MaxClock
                /\ next_id' = next_id + 1
                /\ now' = now + 1
                /\ table' = commit.table
                /\ IF commit.ok
                   THEN /\ last' = Reply("create", contact, 201, <<Response(new_contact)>>)
                        /\ created' = created \cup {new_contact.id}
                   ELSE /\ last' = Reply("create", contact, 500, <<>>)
                        /\ UNCHANGED created

\* GET /contacts/
GetContactsList(skip, limit) ==
    /\ UNCHANGED <<table, next_id, now, created, deleted, req>>
    /\ IF ~ValidPaging(skip, limit)
       THEN last' = Reply("list", <<skip, limit>>, 422, <<>>)
       ELSE last' = Reply("list", <<skip, limit>>, 200,
                          Responses(OffsetLimit(table, skip, limit)))

\* GET /contacts/search/
SearchContactsByQuery(query) ==
    LET matching_contacts == SearchRows(table, SearchPattern(query))
    IN  /\ UNCHANGED <<table, next_id, now, created, deleted, req>>
        /\ IF ~ValidQuery(query)
           THEN last' = Reply("search", query, 422, <<>>)
           ELSE IF matching_contacts = <<>>
           THEN last' = Reply("search", query, 404, <<>>)
           ELSE last' = Reply("search", query, 200, Responses(matching_contacts))

\* GET /contacts/birthdays/
GetUpcomingBirthdays(current_date) ==
    LET Upcoming(r) == IsBirthdayWithinDays(r.birthday, current_date, days_to_check)
    IN  /\ UNCHANGED <<table, next_id, now, created, deleted, req>>
        /\ IF \E i \in 1..Len(table) : Upcoming(table[i]) = "ValueError"
           THEN last' = Reply("birthdays", current_date, 500, <<>>)
           ELSE last' = Reply("birthdays", current_date, 200,
                              Responses(SelectSeq(table, LAMBDA r : Upcoming(r) = "True")))

\* GET /contacts/{contact_id}
GetContactById(contact_id) ==
    LET contact == QueryById(table, contact_id)
    IN  /\ UNCHANGED <<table, next_id, now, created, deleted, req>>
        /\ IF contact = <<>>
           THEN last' = Reply("get", contact_id, 404, <<>>)
           ELSE last' = Reply("get", contact_id, 200, Responses(contact))

\* PUT /contacts/{contact_id}
UpdateContactById(contact_id, update_data, moved) ==
    LET existing_contact == QueryById(table, contact_id)
        changed == FlushUpdate(existing_contact[1],
                               SetAttrs(existing_contact[1], update_data), now + 1)
        commit == UpdateCommit(table, existing_contact[1], changed, moved)
        arg == [id |-> contact_id, data |-> update_data]
    IN  /\ UNCHANGED <<next_id, created, deleted, req>>
        /\ IF ~ValidContactUpdate(update_data)
           THEN /\ last' = Reply("update", arg, 422, <<>>)
                /\ UNCHANGED <<table, now>>
           ELSE IF existing_contact = <<>>
           THEN /\ last' = Reply("update", arg, 404, <<>>)
                /\ UNCHANGED <<table, now>>
           ELSE IF changed = existing_contact[1]
           THEN /\ last' = Reply("update", arg, 200, Responses(existing_contact))
                /\ UNCHANGED <<table, now>>
           ELSE IF ~commit.ok
           THEN /\ last' = Reply("update", arg, 500, <<>>)
                /\ table' = commit.table
                /\ UNCHANGED now
           ELSE /\ now < MaxClock
                /\ now' = now + 1
                /\ table' = commit.table
                /\ last' = Reply("update", arg, 200, <<Response(changed)>>)

\* DELETE /contacts/{contact_id}
DeleteContactById(contact_id) ==
    LET contact == QueryById(table, contact_id)
    IN  /\ UNCHANGED <<next_id, now, created, req>>
        /\ IF contact = <<>>
           THEN /\ last' = Reply("delete", contact_id, 404, <<>>)
                /\ UNCHANGED <<table, deleted>>
           ELSE /\ table' = DeleteRow(table, contact_id)
                /\ deleted' = deleted \cup {contact_id}
                /\ last' = Reply("delete", contact_id, 204, <<>>)

Next ==
    \/ \E contact \in CreateInputs : CreateContact(contact)
    \/ \E paging \in PagingInputs : GetContactsList(paging[1], paging[2])
    \/ \E query \in QueryInputs : SearchContactsByQuery(query)
    \/ \E current_date \in TodayInputs : GetUpcomingBirthdays(current_date)
    \/ \E contact_id \in IdInputs : GetContactById(contact_id)
    \/ \E contact_id \in IdInputs, update_data \in UpdateInputs, moved \in BOOLEAN :
           UpdateContactById(contact_id, update_data, moved)
    \/ \E contact_id \in IdInputs : DeleteContactById(contact_id)

Spec == Init /\ [][Next]_vars

---------------------------------------------------------------------------
\* Concurrent creates: the lookup (line 64) and the insert with its commit
\* (lines 71-73) of one request are separate steps of its session

\* The requests that have committed their contact
Winners == {p \in 1..NProcs : req[p].pc = "done" /\ req[p].status = 201}

RaceLookup(p, contact) ==
    LET existing_contact == QueryByEmail(table, contact.email)
    IN  /\ req[p].pc = "idle"
        /\ UNCHANGED <<table, next_id, now, last, created, deleted>>
        /\ IF ~ValidContactBase(contact)
           THEN req' = [req EXCEPT ![p] =
                            [pc |-> "done", contact |-> contact, status |-> 422,
                             before |-> Winners]]
           ELSE IF existing_contact # <<>>
           THEN req' = [req EXCEPT ![p] =
                            [pc |-> "done", contact |-> contact, status |-> 400,
                             before |-> Winners]]
           ELSE req' = [req EXCEPT ![p] =
                            [pc |-> "checked", contact |-> contact, before |-> Winners]]

RaceCommit(p) ==
    LET new_contact == NewContact(req[p].contact, AllocateId(table, next_id), now + 1)
        commit == InsertCommit(table, new_contact)
    IN  /\ req[p].pc = "checked"
        /\ UNCHANGED <<last, deleted>>
        /\ next_id' = next_id + 1
        /\ table' = commit.table
        /\ IF commit.ok
           THEN /\ now' = now + 1
                /\ created' = created \cup {new_contact.id}
                /\ req' = [req EXCEPT ![p] =
                               [pc |-> "done", contact |-> req[p].contact,
                                status |-> 201, before |-> req[p].before]]
           ELSE /\ UNCHANGED <<now, created>>
                /\ req' = [req EXCEPT ![p] =
                               [pc |-> "done", contact |-> req[p].contact,
                                status |-> 500, before |-> req[p].before]]

NextRace ==
    \/ \E p \in 1..NProcs, contact \in CreateInputs : RaceLookup(p, contact)
    \/ \E p \in 1..NProcs : RaceCommit(p)

SpecRace == Init /\ [][NextRace]_vars

---------------------------------------------------------------------------
\* The birthday predicate on its own: one call per behaviour

BirthdayInputs ==
    {NoDate, Date(1990, 1, 2), Date(2000, 2, 29), Date(1985, 12, 30),
     Date(1999, 2, 25), Date(1970, 3, 1)}

ReferenceInputs ==
    TodayInputs \cup {Date(2024, 2, 29), Date(2024, 3, 1), Date(2023, 12, 31)}

InitBirthday ==
    /\ table = <<>>
    /\ next_id = 1
    /\ now = 0
    /\ created = {}
    /\ deleted = {}
    /\ req = [p \in 1..NProcs |-> [pc |-> "idle"]]
    /\ \E birthday \in BirthdayInputs, current_date \in ReferenceInputs,
          days \in 0..MaxDays :
           last = Reply("is_birthday_within_days",
                        [birthday |-> birthday, current_date |-> current_date,
                         days |-> days],
                        0, "pending")

CallIsBirthdayWithinDays ==
    /\ last.body = "pending"
    /\ last' = [last EXCEPT !.body = IsBirthdayWithinDays(last.arg.birthday,
                                                          last.arg.current_date,
                                                          last.arg.days)]
    /\ UNCHANGED <<table, next_id, now, created, deleted, req>>

NextBirthday == CallIsBirthdayWithinDays

SpecBirthday == InitBirthday /\ [][NextBirthday]_vars

---------------------------------------------------------------------------
\* Properties

Ids(t) == {t[i].id : i \in 1..Len(t)}

RowOf(t, id) == QueryById(t, id)[1]

NoDuplicateEmail ==
    \A i, j \in 1..Len(table) : i # j => table[i].email # table[j].email

\* The update of this step names a stored contact and carries the email of another
CollidingUpdate ==
    /\ last'.op = "update"
    /\ last'.arg.id \in Ids(table)
    /\ "email" \in DOMAIN last'.arg.data
    /\ \E i \in 1..Len(table) : /\ table[i].id # last'.arg.id
                                /\ table[i].email = last'.arg.data["email"]

\* C1: no two stored contacts ever have the same email, and an update that sets
\* a contact's email to the email of a different stored contact fails and
\* leaves the table as it was.
C1_EmailUnique ==
    /\ []NoDuplicateEmail
    /\ [][CollidingUpdate => last'.status >= 400 /\ table' = table]_vars

C1_Witness ==
    /\ last.op = "update"
    /\ last.status = 500
    /\ last.arg.id \in Ids(table)
    /\ "email" \in DOMAIN last.arg.data
    /\ \E i \in 1..Len(table) : /\ table[i].id # last.arg.id
                                /\ table[i].email = last.arg.data["email"]
    /\ RowOf(table, last.arg.id).email # last.arg.data["email"]

\* C2: a valid create whose email is the email of a stored contact fails with
\* 400 and adds no record; a valid create whose email is not in the table
\* appends exactly one record carrying the supplied fields and returns it.
C2_Create ==
    [][(last'.op = "create" /\ ValidContactBase(last'.arg)) =>
          IF \E i \in 1..Len(table) : table[i].email = last'.arg.email
          THEN last'.status = 400 /\ table' = table
          ELSE /\ last'.status = 201
               /\ Len(table') = Len(table) + 1
               /\ SubSeq(table', 1, Len(table)) = table
               /\ \A f \in BusinessFields : table'[Len(table')][f] = last'.arg[f]
               /\ last'.body = <<Response(table'[Len(table')])>>]_vars

C2_Witness ==
    /\ last.op = "create"
    /\ last.status = 400
    /\ \E i \in 1..Len(table) : /\ table[i].email = last.arg.email
                                /\ table[i].first_name # last.arg.first_name

\* The update of this step names a stored contact and passed validation
UpdateOfStored ==
    /\ last'.op = "update"
    /\ last'.arg.id \in Ids(table)
    /\ ValidContactUpdate(last'.arg.data)

OthersUnchanged(id) ==
    /\ Ids(table') = Ids(table)
    /\ Len(table') = Len(table)
    /\ \A other \in Ids(table) \ {id} : RowOf(table', other) = RowOf(table, other)

\* The frame of an update, with the omitted fields, id and created_at kept
UpdateFrame(old, new, data) ==
    /\ \A f \in DOMAIN data : new[f] = data[f]
    /\ \A f \in (BusinessFields \ DOMAIN data) \cup {"id", "created_at"} :
           new[f] = old[f]

Refused(t, id, data) ==
    \/ \E f \in DOMAIN data \cap NotNullFields : IsNone(f, data[f])
    \/ /\ "email" \in DOMAIN data
       /\ \E i \in 1..Len(t) : t[i].id # id /\ t[i].email = data["email"]

NetChange(old, data) == \E f \in DOMAIN data : data[f] # old[f]

C4_DeletedStaysGone ==
    /\ \A id \in deleted : id \notin Ids(table)
    /\ (last.op = "get" /\ last.arg \in deleted) => last.status = 404

C4_Witness ==
    /\ last.op = "get"
    /\ last.arg \in deleted
    /\ last.status = 404
    /\ \E id \in Ids(table) : id > last.arg

\* The next occurrence of the birthday's month and day on or after the
\* reference date, as an ordinal
Occurrences(birthday, current_date) ==
    {Ordinal(Date(y, birthday.month, birthday.day)) :
        y \in {yy \in current_date.year..(current_date.year + 8) :
                  /\ ValidDate(Date(yy, birthday.month, birthday.day))
                  /\ Ordinal(Date(yy, birthday.month, birthday.day))
                        >= Ordinal(current_date)}}

NextOccurrence(birthday, current_date) ==
    CHOOSE o \in Occurrences(birthday, current_date) :
        \A other \in Occurrences(birthday, current_date) : o <= other

\* C5: the predicate returns false for an absent birthday and otherwise true
\* exactly when the birthday's next occurrence on or after the reference date
\* is at most window_days after it.
C5_BirthdayWindow ==
    (last.op = "is_birthday_within_days" /\ last.body # "pending") =>
        IF last.arg.birthday = NoDate THEN last.body = "False"
        ELSE last.body =
                 (IF NextOccurrence(last.arg.birthday, last.arg.current_date)
                        <= Ordinal(last.arg.current_date) + last.arg.days
                  THEN "True" ELSE "False")

\* t contains q as a run of consecutive characters, letter case ignored
ContainsNoCase(t, q) ==
    \E i \in 1..(Len(t) - Len(q) + 1) :
        LowerStr(SubSeq(t, i, i + Len(q) - 1)) = LowerStr(q)

Matches(row, q) ==
    \/ ContainsNoCase(row.first_name, q)
    \/ ContainsNoCase(row.last_name, q)
    \/ ContainsNoCase(row.email, q)

\* C6: a search with a query of at least three characters returns exactly the
\* stored contacts whose first name, last name or email contains the query,
\* letter case ignored, and answers 404 exactly when there is none.
C6_Search ==
    (last.op = "search" /\ ValidQuery(last.arg)) =>
        LET expected == SelectSeq(table, LAMBDA r : Matches(r, last.arg))
        IN  IF expected = <<>> THEN last.status = 404
            ELSE last.status = 200 /\ last.body = Responses(expected)

\* The rows in the order of their insertion, which is the order of their ids
RECURSIVE InsertionOrder(_)
InsertionOrder(rows) ==
    IF rows = {} THEN <<>>
    ELSE LET first == CHOOSE r \in rows : \A other \in rows : r.id <= other.id
         IN  <<first>> \o InsertionOrder(rows \ {first})

\* C7: list(skip, limit) with skip >= 0 and 1 <= limit <= 500 returns the
\* contacts at positions skip .. skip+limit-1 of the insertion order, also
\* after updates and deletes; other skip or limit values are refused with 422.
C7_ListPage ==
    last.op = "list" =>
        IF ValidPaging(last.arg[1], last.arg[2])
        THEN /\ last.status = 200
             /\ last.body =
                    Responses(OffsetLimit(
                        InsertionOrder({table[i] : i \in 1..Len(table)}),
                        last.arg[1], last.arg[2]))
        ELSE last.status = 422

\* C8: the id a create returns is greater than every id a create returned
\* before, no two stored contacts share an id, and an update keeps the ids.
C8_Ids ==
    /\ [](\A i, j \in 1..Len(table) : i # j => table[i].id # table[j].id)
    /\ [][(last'.op = "create" /\ last'.status = 201) =>
             /\ \A id \in created : last'.body[1].id > id
             /\ created' = created \cup {last'.body[1].id}
             /\ RowOf(table', last'.body[1].id).email = last'.arg.email]_vars
    /\ [][last'.op = "update" =>
             /\ Ids(table') = Ids(table)
             /\ Len(table') = Len(table)
             /\ last'.status = 200 => last'.body[1].id = last'.arg.id]_vars

C8_Witness ==
    /\ last.op = "create"
    /\ last.status = 201
    /\ last.body[1].id > 1
    /\ 1 \in deleted
    /\ Ids(table) = {last.body[1].id}

\* C9: a request that ends in a failure leaves the table as it was; get, update
\* and delete of an id that is not stored answer 404.
C9_FailureChangesNothing ==
    /\ [][last'.status >= 400 => table' = table]_vars
    /\ [][(last'.op \in {"get", "delete"} /\ last'.arg \notin Ids(table))
             => last'.status = 404]_vars
    /\ [][(/\ last'.op = "update"
           /\ last'.arg.id \notin Ids(table)
           /\ ValidContactUpdate(last'.arg.data)) => last'.status = 404]_vars

C9_Witness ==
    /\ last.op = "update"
    /\ last.status = 500
    /\ last.arg.id \in Ids(table)
    /\ DOMAIN last.arg.data = {"last_name"}
    /\ last.arg.data["last_name"] = None
    /\ RowOf(table, last.arg.id).last_name # None

\* Two finished requests that carried the same email
SameEmail(p, q) ==
    /\ p # q
    /\ req[p].pc = "done"
    /\ req[q].pc = "done"
    /\ req[p].contact.email = req[q].contact.email

\* C10: of the concurrent creates carrying one email at most one stores a
\* contact, the table never holds two contacts with one email, and a valid
\* create that lost answers 400 when its lookup ran after the winner's commit
\* and 500 (the failed commit) when it ran before.
C10_CreateRace ==
    /\ NoDuplicateEmail
    /\ \A p, q \in 1..NProcs :
           (SameEmail(p, q) /\ req[p].status = 201) =>
               /\ req[q].status # 201
               /\ ValidContactBase(req[q].contact) =>
                      req[q].status = (IF p \in req[q].before THEN 400 ELSE 500)

C10_Witness ==
    \E p, q \in 1..NProcs :
        /\ SameEmail(p, q)
        /\ req[p].status = 201
        /\ req[q].status = 500
        /\ p \notin req[q].before

============================================================================
